---- MODULE Spec2Model ----
(***************************************************************************)
(* Element plugin discovery, manifest validation and the in-memory plugin  *)
(* registry of JunctionRelay_Elements.                                     *)
(*                                                                         *)
(*   packages/host/src/discovery.ts   discoverPlugins, tryLoadPlugin,      *)
(*                                    validateElementManifest              *)
(*   packages/host/src/registry.ts    createRegistry, build, refresh       *)
(*   packages/sdk/src/validation.ts   validateManifest                     *)
(*   packages/protocol/src/index.ts   PLUGIN_ID_PATTERN, categories        *)
(***************************************************************************)
EXTENDS Integers, Sequences, FiniteSets, TLC

VARIABLES
    fs,               \* the elements directory on disk
    officialPackages, \* RegistryOptions.officialPackages
    pc,               \* where the host is: before, inside or after createRegistry
    registry,         \* `registry` of createRegistry: insertion-ordered Map
    stack,            \* active build() calls, innermost last
    seen,             \* what the last get/has/getAll/size call returned
    installed,        \* plugins list of the scan of the build that finished last
    prevReturn,       \* registry when the previous top-level refresh returned
    dirty,            \* the directory changed since the last top-level scan
    fsChanges,        \* number of directory changes so far
    lastCall,         \* how the last createRegistry/refresh call ended
    outcome,          \* result of the last discoverPlugins call of the scan specification
    input,            \* the value handed to validateManifest
    validation        \* what validateManifest returned for it, per revision of validation.ts

vars == <<fs, officialPackages, pc, registry, stack, seen, installed,
          prevReturn, dirty, fsChanges, lastCall, outcome, input, validation>>

-----------------------------------------------------------------------------
(* JavaScript values as they come out of JSON.parse.  Every value carries   *)
(* its typeof tag; an absent property reads as Undefined.                   *)

Str(s)    == [t |-> "string",    s |-> s,  n |-> 0, b |-> FALSE]
Num(n)    == [t |-> "number",    s |-> "", n |-> n, b |-> FALSE]
Bool(b)   == [t |-> "boolean",   s |-> "", n |-> 0, b |-> b]
Undefined == [t |-> "undefined", s |-> "", n |-> 0, b |-> FALSE]
Null      == [t |-> "null",      s |-> "", n |-> 0, b |-> FALSE]
Object    == [t |-> "object",    s |-> "", n |-> 0, b |-> FALSE]
Array     == [t |-> "array",     s |-> "", n |-> 0, b |-> FALSE]

\* typeof v: null and arrays are objects
TypeOf(v) == IF v.t \in {"null", "array"} THEN "object" ELSE v.t

\* a comparison that looks at the type of the value only
IsStr_AnyString(v, s) == v.t = "string"

\* v === s for a string literal s
IsStr(v, s) == v.t = "string" /\ v.s = s

\* String(v)
ToStr(v) ==
    CASE v.t = "string"    -> v.s
      [] v.t = "number"    -> ToString(v.n)
      [] v.t = "boolean"   -> IF v.b THEN "true" ELSE "false"
      [] v.t = "undefined" -> "undefined"
      [] v.t = "null"      -> "null"
      [] v.t = "object"    -> "[object Object]"
      [] v.t = "array"     -> ""

\* !v
Falsy(v) ==
    \/ v.t \in {"undefined", "null"}
    \/ v.t = "number" /\ v.n = 0
    \/ v.t = "string" /\ v.s = ""
    \/ v.t = "boolean" /\ ~v.b

\* v ?? d
Coalesce(v, d) == IF v.t \in {"undefined", "null"} THEN d ELSE v

-----------------------------------------------------------------------------
(* Regular expressions over the characters of an identifier.                *)

Lower == {"a", "b", "c", "d", "e", "f", "g", "h", "i", "j", "k", "l", "m",
          "n", "o", "p", "q", "r", "s", "t", "u", "v", "w", "x", "y", "z"}
Digit == {"0", "1", "2", "3", "4", "5", "6", "7", "8", "9"}

\* the characters of the identifier strings the model uses
Chars(s) ==
    CASE s = "gauge-x"  -> <<"g", "a", "u", "g", "e", "-", "x">>
      [] s = "clock"    -> <<"c", "l", "o", "c", "k">>
      [] s = "el-2"     -> <<"e", "l", "-", "2">>
      [] s = "Bad Name" -> <<"B", "a", "d", " ", "N", "a", "m", "e">>
      [] s = "x-"       -> <<"x", "-">>
      [] s = "2x"       -> <<"2", "x">>
      [] s = "yourname.my-thing" ->
             <<"y", "o", "u", "r", "n", "a", "m", "e", ".", "m", "y", "-",
               "t", "h", "i", "n", "g">>
      [] s = "a.b.c"    -> <<"a", ".", "b", ".", "c">>
      [] s = ".clock"   -> <<".", "c", "l", "o", "c", "k">>
      [] s = "stock-ticker" ->
             <<"s", "t", "o", "c", "k", "-", "t", "i", "c", "k", "e", "r">>
      [] s = "gauge"    -> <<"g", "a", "u", "g", "e">>
      [] s = "junctionrelay.stock-ticker" ->
             <<"j", "u", "n", "c", "t", "i", "o", "n", "r", "e", "l", "a", "y", ".",
               "s", "t", "o", "c", "k", "-", "t", "i", "c", "k", "e", "r">>
      [] s = ""         -> <<>>

RECURSIVE KebabTail(_, _)
\* ([a-z0-9]*(-[a-z0-9]+)*)$ from position i
KebabTail(cs, i) ==
    \/ i > Len(cs)
    \/ /\ cs[i] \in Lower \cup Digit
       /\ KebabTail(cs, i + 1)
    \/ /\ cs[i] = "-"
       /\ i + 1 <= Len(cs)
       /\ cs[i + 1] \in Lower \cup Digit
       /\ KebabTail(cs, i + 2)

\* /^[a-z][a-z0-9]*(-[a-z0-9]+)*$/ on a character sequence
Kebab(cs) == Len(cs) >= 1 /\ cs[1] \in Lower /\ KebabTail(cs, 2)

\* ELEMENT_TYPE_PATTERN.test(s)
ELEMENT_TYPE_PATTERN(s) == Kebab(Chars(s))

\* PLUGIN_ID_PATTERN.test(s): two kebab-case segments around one dot
PLUGIN_ID_PATTERN(s) ==
    LET cs == Chars(s)
    IN  \E k \in 1..Len(cs) :
            /\ cs[k] = "."
            /\ Kebab(SubSeq(cs, 1, k - 1))
            /\ Kebab(SubSeq(cs, k + 1, Len(cs)))

VALID_CATEGORIES == <<"Data", "Media", "Visualization", "Effects", "Utility">>
ELEMENT_CATEGORIES == <<"Data", "Media", "Visualization", "Effects", "Utility">>

\* arr.includes(x) for an array of strings
Includes(arr, x) == \E i \in 1..Len(arr) : arr[i] = x

RECURSIVE Join(_, _)
\* a join that keeps the first element only
Join_First(ss, sep) == IF Len(ss) = 0 THEN "" ELSE ss[1]

\* errors.join(sep)
Join(ss, sep) ==
    IF Len(ss) = 0 THEN ""
    ELSE IF Len(ss) = 1 THEN ss[1]
    ELSE ss[1] \o sep \o Join(Tail(ss), sep)

\* cond ? [msg] : []
ErrIf(cond, msg) == IF cond THEN <<msg>> ELSE <<>>

-----------------------------------------------------------------------------
(* The `junctionrelay` manifest object.  defaultSize keeps its own tag and  *)
(* its width/height properties, layoutModes its tag and its elements.       *)

\* typeof m.defaultSize !== 'object' || width/height not numbers, null and
\* undefined included
BadDefaultSize(ds) ==
    \/ ds.t = "null"
    \/ ds.t = "undefined"
    \/ ds.t \notin {"object", "array"}
    \/ TypeOf(ds.width) # "number"
    \/ TypeOf(ds.height) # "number"

BadDefaultProperties(dp) ==
    \/ dp.t = "null"
    \/ dp.t = "undefined"
    \/ TypeOf(dp) # "object"
    \/ dp.t = "array"

\* an element of an array as Array.prototype.join prints it
JoinStr(v) == IF v.t \in {"undefined", "null"} THEN "" ELSE ToStr(v)

\* a filter that lets every element through
InvalidModes_All(items) == items

\* m.layoutModes.filter(mode => mode !== 'composite' && mode !== 'pixel')
InvalidModes(items) ==
    SelectSeq(items, LAMBDA mode : ~IsStr(mode, "composite") /\ ~IsStr(mode, "pixel"))

MapStr(items) == [i \in 1..Len(items) |-> JoinStr(items[i])]

LayoutModesErrors(lm) ==
    IF lm.t = "undefined" THEN <<>>
    ELSE IF lm.t # "array" THEN <<"layoutModes must be an array if provided">>
    ELSE ErrIf(Len(InvalidModes(lm.items)) > 0,
               "layoutModes contains invalid values: "
                   \o Join(MapStr(InvalidModes(lm.items)), ", ")
                   \o "; allowed: composite, pixel")

NonEmptyString(v) == TypeOf(v) = "string" /\ Len(v.s) # 0

\* validateElementManifest of discovery.ts: the host's inline validation
validateElementManifest(m) ==
       ErrIf(~NonEmptyString(m.entry), "missing entry")
    \o ErrIf(TypeOf(m.elementType) # "string" \/ ~ELEMENT_TYPE_PATTERN(m.elementType.s),
             "invalid elementType '" \o ToStr(m.elementType) \o "'")
    \o ErrIf(~NonEmptyString(m.displayName), "missing displayName")
    \o ErrIf(~NonEmptyString(m.description), "missing description")
    \o ErrIf(TypeOf(m.category) # "string" \/ ~Includes(VALID_CATEGORIES, m.category.s),
             "invalid category '" \o ToStr(m.category) \o "'")
    \o ErrIf(~NonEmptyString(m.icon), "missing icon")
    \o ErrIf(TypeOf(m.sensorTagCompatible) # "boolean", "missing sensorTagCompatible")
    \o ErrIf(BadDefaultSize(m.defaultSize), "invalid defaultSize")
    \o ErrIf(BadDefaultProperties(m.defaultProperties), "invalid defaultProperties")

\* field checks that stop at the first failure
ManifestErrors_FirstOnly(m) ==
    LET all ==
           ErrIf(~IsStr(m.type, "element"),
                 "type must be 'element', got '" \o ToStr(m.type) \o "'")
        \o ErrIf(~NonEmptyString(m.entry),
                 "entry must be a non-empty string (e.g. \"dist/index.js\")")
        \o ErrIf(TypeOf(m.elementType) # "string" \/ ~ELEMENT_TYPE_PATTERN(m.elementType.s),
                 "elementType must be lowercase kebab-case (e.g. 'stock-ticker'), got '"
                     \o ToStr(m.elementType) \o "'")
        \o ErrIf(~NonEmptyString(m.displayName), "displayName must be a non-empty string")
        \o ErrIf(~NonEmptyString(m.description), "description must be a non-empty string")
        \o ErrIf(TypeOf(m.category) # "string" \/ ~Includes(ELEMENT_CATEGORIES, m.category.s),
                 "category must be one of: " \o Join(ELEMENT_CATEGORIES, ", ")
                     \o "; got '" \o ToStr(m.category) \o "'")
        \o ErrIf(~NonEmptyString(m.icon), "icon must be a non-empty string (MUI icon name)")
        \o ErrIf(TypeOf(m.sensorBound) # "boolean", "sensorBound must be a boolean")
        \o ErrIf(BadDefaultSize(m.defaultSize),
                 "defaultSize must be { width: number, height: number }")
        \o ErrIf(BadDefaultProperties(m.defaultProperties),
                 "defaultProperties must be an object")
        \o LayoutModesErrors(m.layoutModes)
    IN  IF all = <<>> THEN <<>> ELSE <<all[1]>>

\* the field checks of validateManifest in packages/sdk/src/validation.ts,
\* for an input that is a non-null object
ManifestErrors(m) ==
       ErrIf(~IsStr(m.type, "element"),
             "type must be 'element', got '" \o ToStr(m.type) \o "'")
    \o ErrIf(~NonEmptyString(m.entry),
             "entry must be a non-empty string (e.g. \"dist/index.js\")")
    \o ErrIf(TypeOf(m.elementType) # "string" \/ ~ELEMENT_TYPE_PATTERN(m.elementType.s),
             "elementType must be lowercase kebab-case (e.g. 'stock-ticker'), got '"
                 \o ToStr(m.elementType) \o "'")
    \o ErrIf(~NonEmptyString(m.displayName), "displayName must be a non-empty string")
    \o ErrIf(~NonEmptyString(m.description), "description must be a non-empty string")
    \o ErrIf(TypeOf(m.category) # "string" \/ ~Includes(ELEMENT_CATEGORIES, m.category.s),
             "category must be one of: " \o Join(ELEMENT_CATEGORIES, ", ")
                 \o "; got '" \o ToStr(m.category) \o "'")
    \o ErrIf(~NonEmptyString(m.icon), "icon must be a non-empty string (MUI icon name)")
    \o ErrIf(TypeOf(m.sensorBound) # "boolean", "sensorBound must be a boolean")
    \o ErrIf(BadDefaultSize(m.defaultSize),
             "defaultSize must be { width: number, height: number }")
    \o ErrIf(BadDefaultProperties(m.defaultProperties),
             "defaultProperties must be an object")
    \o LayoutModesErrors(m.layoutModes)

\* the same checks in the namespaced revision of validation.ts
ManifestErrorsNamespaced(m) ==
       ErrIf(~IsStr(m.type, "element"),
             "type must be 'element', got '" \o ToStr(m.type) \o "'")
    \o ErrIf(~NonEmptyString(m.entry),
             "entry must be a non-empty string (e.g. \"dist/index.js\")")
    \o ErrIf(TypeOf(m.elementType) # "string" \/ ~PLUGIN_ID_PATTERN(m.elementType.s),
             "elementType must be namespaced dot-notation (e.g. 'junctionrelay.stock-ticker'), got '"
                 \o ToStr(m.elementType) \o "'")
    \o ErrIf(~NonEmptyString(m.displayName), "displayName must be a non-empty string")
    \o (IF ~NonEmptyString(m.description)
        THEN <<"description must be a non-empty string">>
        ELSE ErrIf(Len(m.description.s) > 120,
                   "description must be 120 characters or fewer (got "
                       \o ToString(Len(m.description.s)) \o ")"))
    \o ErrIf(TypeOf(m.category) # "string" \/ ~Includes(ELEMENT_CATEGORIES, m.category.s),
             "category must be one of: " \o Join(ELEMENT_CATEGORIES, ", ")
                 \o "; got '" \o ToStr(m.category) \o "'")
    \o ErrIf(~NonEmptyString(m.icon), "icon must be a non-empty string (MUI icon name)")
    \o ErrIf(TypeOf(m.sensorTagCompatible) # "boolean",
             "sensorTagCompatible must be a boolean")
    \o ErrIf(BadDefaultSize(m.defaultSize),
             "defaultSize must be { width: number, height: number }")
    \o ErrIf(BadDefaultProperties(m.defaultProperties),
             "defaultProperties must be an object")
    \o LayoutModesErrors(m.layoutModes)

\* a validator whose verdict overlooks a single error
validateManifest_Lenient(jr) ==
    IF jr.t = "null" \/ jr.t = "undefined" \/ jr.t \notin {"object", "array"}
    THEN [valid |-> FALSE, errors |-> <<"manifest must be an object">>]
    ELSE [valid  |-> Len(ManifestErrors(jr.m)) <= 1,
          errors |-> ManifestErrors(jr.m)]

(* A value handed to validateManifest: its tag, and its properties when it  *)
(* is an object.                                                            *)
validateManifest(jr) ==
    IF jr.t = "null" \/ jr.t = "undefined" \/ jr.t \notin {"object", "array"}
    THEN [valid |-> FALSE, errors |-> <<"manifest must be an object">>]
    ELSE [valid  |-> Len(ManifestErrors(jr.m)) = 0,
          errors |-> ManifestErrors(jr.m)]

validateManifestNamespaced(jr) ==
    IF jr.t = "null" \/ jr.t = "undefined" \/ jr.t \notin {"object", "array"}
    THEN [valid |-> FALSE, errors |-> <<"manifest must be an object">>]
    ELSE [valid  |-> Len(ManifestErrorsNamespaced(jr.m)) = 0,
          errors |-> ManifestErrorsNamespaced(jr.m)]

-----------------------------------------------------------------------------
(* The elements directory.  A candidate directory is named by the place it  *)
(* lives in and its entry name, split into the prefix the scan looks for    *)
(* and the rest.                                                            *)

Dir(loc, pre, rest) == [loc |-> loc, pre |-> pre, rest |-> rest]

\* a prefix test that knows the scoped prefix only
StartsWith_ElementOnly(entry, prefix) == entry.pre = "element-"

\* entry.startsWith(prefix)
StartsWith(entry, prefix) == entry.pre = prefix

\* the entry name as readdirSync returns it
EntryName(entry) == entry.pre \o entry.rest

\* path.join(resolved, ...) as a sequence of segments
DirPath(d) ==
    CASE d.loc = "direct"   -> <<"elements", EntryName(d)>>
      [] d.loc = "scoped"   -> <<"elements", "node_modules", "@junctionrelay", EntryName(d)>>
      [] d.loc = "unscoped" -> <<"elements", "node_modules", EntryName(d)>>

\* the last segment but one
Basename_Parent(path) == path[Len(path) - 1]

\* path.basename(dirPath)
Basename(path) == path[Len(path)]

\* the root's own entry for the dependency cache, and the scope directory's
\* entry inside it
NodeModulesEntry == Dir("direct", "", "node_modules")
ScopeEntry == Dir("unscoped", "", "@junctionrelay")

\* fs.existsSync(dir)
ExistsSync(status) == status # "missing"

\* safeReaddir(dir): the entries in the order the file system hands them out,
\* nothing when dir is not a directory or cannot be read
safeReaddir(status, listing) == IF status = "dir" THEN listing ELSE <<>>

\* every order in which readdirSync may return the entries S
Orders(S) ==
    {o \in [1..Cardinality(S) -> S] : \A i, j \in 1..Cardinality(S) : o[i] = o[j] => i = j}

Present(f, loc) == {d \in DOMAIN f.entries : d.loc = loc /\ f.entries[d].exists}

RootEntries(f) ==
    Present(f, "direct") \cup (IF ExistsSync(f.nodeModules) THEN {NodeModulesEntry} ELSE {})
ScopedEntries(f) == Present(f, "scoped")
NodeModulesEntries(f) ==
    Present(f, "unscoped") \cup (IF ExistsSync(f.scope) THEN {ScopeEntry} ELSE {})

-----------------------------------------------------------------------------
(* discovery.ts                                                             *)

DuplicateReason(elementType) ==
    "Duplicate elementType '" \o elementType \o "' -- already registered"

\* the duplicate check looking at the live registry as well
AlreadyRegistered_Live(plugins, manifest) ==
    \/ \E i \in 1..Len(plugins) : plugins[i].manifest.elementType = manifest.elementType
    \/ \E i \in 1..Len(registry) : registry[i].key = manifest.elementType.s

\* the duplicate check looking at the most recent plugin only
AlreadyRegistered_Last(plugins, manifest) ==
    /\ Len(plugins) > 0
    /\ plugins[Len(plugins)].manifest.elementType = manifest.elementType

\* a scan without the duplicate check
AlreadyRegistered_Never(plugins, manifest) == FALSE

\* plugins.some(p => p.manifest.elementType === manifest.elementType)
AlreadyRegistered(plugins, manifest) ==
    \E i \in 1..Len(plugins) : plugins[i].manifest.elementType = manifest.elementType

\* a skipped entry that keeps the directory's name instead of its path
Skip_Basename(acc, path, reason) ==
    [acc EXCEPT !.skipped = Append(@, [path |-> <<Basename(path)>>, reason |-> reason])]

\* skipped.push({ path: dirPath, reason })
Skip(acc, path, reason) ==
    [acc EXCEPT !.skipped = Append(@, [path |-> path, reason |-> reason])]

\* tryLoadPlugin(dirPath, plugins, skipped) on the directory content c;
\* acc.threw records an exception that leaves the function
tryLoadPlugin(dirPath, c, acc) ==
    IF c.pkg = "none" THEN acc
    ELSE IF c.pkg = "unreadable" THEN Skip(acc, dirPath, "Could not read package.json")
    ELSE IF c.pkg = "invalid" THEN Skip(acc, dirPath, "Invalid JSON in package.json")
    \* pkg.junctionrelay on null: TypeError, outside every try block
    ELSE IF c.pkg = "null" THEN [acc EXCEPT !.threw = TRUE]
    \* numbers, strings and arrays have no junctionrelay property
    ELSE IF c.pkg # "object" THEN acc
    ELSE IF Falsy(c.junctionrelay) \/ TypeOf(c.junctionrelay) # "object" THEN acc
    ELSE IF ~IsStr(c.junctionrelay.m.type, "element") THEN acc
    ELSE IF Len(validateElementManifest(c.junctionrelay.m)) > 0
         THEN Skip(acc, dirPath, Join(validateElementManifest(c.junctionrelay.m), "; "))
    ELSE IF AlreadyRegistered(acc.plugins, c.junctionrelay.m)
         THEN Skip(acc, dirPath, DuplicateReason(c.junctionrelay.m.elementType.s))
    ELSE [acc EXCEPT !.plugins = Append(@,
              [name     |-> Coalesce(c.name, Str(Basename(dirPath))),
               version  |-> Coalesce(c.version, Str("0.0.0")),
               path     |-> dirPath,
               entry    |-> c.junctionrelay.m.entry,
               manifest |-> c.junctionrelay.m])]

RECURSIVE LoadEach(_, _, _, _)
\* one for-loop of discoverPlugins over the entries that pass its filter
LoadEach(f, entries, i, acc) ==
    IF i > Len(entries) \/ acc.threw THEN acc
    ELSE LoadEach(f, entries, i + 1,
                  tryLoadPlugin(DirPath(entries[i]), f.entries[entries[i]], acc))

\* a scan whose third loop walks into the scope directory again
Candidates_ScopeAgain(f, rootOrder, scopedOrder, nmOrder) ==
    LET direct   == IF ExistsSync(f.root)
                    THEN SelectSeq(safeReaddir(f.root, rootOrder),
                                   LAMBDA e : e # NodeModulesEntry)
                    ELSE <<>>
        scoped   == IF ExistsSync(f.scope)
                    THEN SelectSeq(safeReaddir(f.scope, scopedOrder),
                                   LAMBDA e : StartsWith(e, "element-"))
                    ELSE <<>>
        unscoped == IF ExistsSync(f.nodeModules)
                    THEN SelectSeq(safeReaddir(f.nodeModules, nmOrder),
                                   LAMBDA e : StartsWith(e, "junctionrelay-element-"))
                    ELSE <<>>
    IN  direct \o scoped \o unscoped \o scoped

\* the same directories with the unscoped dependency-cache entries taken
\* before the scoped ones
Candidates_UnscopedFirst(f, rootOrder, scopedOrder, nmOrder) ==
    LET direct   == IF ExistsSync(f.root)
                    THEN SelectSeq(safeReaddir(f.root, rootOrder),
                                   LAMBDA e : e # NodeModulesEntry)
                    ELSE <<>>
        scoped   == IF ExistsSync(f.scope)
                    THEN SelectSeq(safeReaddir(f.scope, scopedOrder),
                                   LAMBDA e : StartsWith(e, "element-"))
                    ELSE <<>>
        unscoped == IF ExistsSync(f.nodeModules)
                    THEN SelectSeq(safeReaddir(f.nodeModules, nmOrder),
                                   LAMBDA e : StartsWith(e, "junctionrelay-element-"))
                    ELSE <<>>
    IN  direct \o unscoped \o scoped

\* the directories discoverPlugins hands to tryLoadPlugin, in that order,
\* when the three directories enumerate as rootOrder, scopedOrder and nmOrder
Candidates(f, rootOrder, scopedOrder, nmOrder) ==
    LET direct   == IF ExistsSync(f.root)
                    THEN SelectSeq(safeReaddir(f.root, rootOrder),
                                   LAMBDA e : e # NodeModulesEntry)
                    ELSE <<>>
        scoped   == IF ExistsSync(f.scope)
                    THEN SelectSeq(safeReaddir(f.scope, scopedOrder),
                                   LAMBDA e : StartsWith(e, "element-"))
                    ELSE <<>>
        unscoped == IF ExistsSync(f.nodeModules)
                    THEN SelectSeq(safeReaddir(f.nodeModules, nmOrder),
                                   LAMBDA e : StartsWith(e, "junctionrelay-element-"))
                    ELSE <<>>
    IN  direct \o scoped \o unscoped

\* discoverPlugins(elementsDir) over those directories
discoverPlugins(f, candidates) ==
    LoadEach(f, candidates, 1, [plugins |-> <<>>, skipped |-> <<>>, threw |-> FALSE])

\* every sequence of candidates a scan of f may process
ScanOrders(f) ==
    {Candidates(f, ro, so, no) :
        ro \in Orders(RootEntries(f)), so \in Orders(ScopedEntries(f)),
        no \in Orders(NodeModulesEntries(f))}

-----------------------------------------------------------------------------
(* Package descriptors and manifests the checks draw from.                  *)

NoSize == [t |-> "undefined", width |-> Undefined, height |-> Undefined]
Size(w, h) == [t |-> "object", width |-> w, height |-> h]
NoModes == [t |-> "undefined", items |-> <<>>]
Modes(items) == [t |-> "array", items |-> items]

\* an object without any of the manifest's properties
EmptyManifest ==
    [type |-> Undefined, entry |-> Undefined, elementType |-> Undefined,
     elementName |-> Undefined, displayName |-> Undefined,
     description |-> Undefined, category |-> Undefined, icon |-> Undefined,
     sensorBound |-> Undefined, sensorTagCompatible |-> Undefined,
     defaultSize |-> NoSize, defaultProperties |-> Undefined,
     layoutModes |-> NoModes]

\* VALID_MANIFEST of discovery.test.ts and writePlugin of registry.test.ts
TestManifest(elementType) ==
    [EmptyManifest EXCEPT
        !.type = Str("element"), !.entry = Str("dist/index.js"),
        !.elementType = Str(elementType), !.displayName = Str("Gauge X"),
        !.description = Str("d"), !.category = Str("Data"),
        !.icon = Str("Star"), !.sensorBound = Bool(FALSE),
        !.defaultSize = Size(Num(200), Num(100)),
        !.defaultProperties = Object]

\* the same manifest with the flag ElementPluginManifest declares
ProtocolManifest(elementType) ==
    [TestManifest(elementType) EXCEPT
        !.sensorBound = Undefined, !.sensorTagCompatible = Bool(FALSE)]

\* the package.json template of README.md
ReadmeManifest ==
    [EmptyManifest EXCEPT
        !.type = Str("element"), !.entry = Str("dist/index.js"),
        !.elementName = Str("yourname.my-thing"), !.displayName = Str("My Thing"),
        !.description = Str("Short description (max 120 chars)"),
        !.category = Str("Data"), !.icon = Str("Extension"),
        !.sensorTagCompatible = Bool(FALSE),
        !.defaultSize = Size(Num(200), Num(100)),
        !.defaultProperties = Object,
        !.layoutModes = Modes(<<Str("composite")>>)]

\* the value of pkg.junctionrelay
JrObject(m) == [t |-> "object", s |-> "", n |-> 0, b |-> FALSE, m |-> m]
JrValue(v) == [t |-> v.t, s |-> v.s, n |-> v.n, b |-> v.b, m |-> EmptyManifest]

\* a directory entry that is not there
Absent ==
    [exists |-> FALSE, pkg |-> "none", name |-> Undefined, version |-> Undefined,
     junctionrelay |-> JrValue(Undefined)]

\* a directory whose package.json is missing, unreadable, not JSON, or JSON
\* that is not an object (kind names which)
NoDescriptor(kind) == [Absent EXCEPT !.exists = TRUE, !.pkg = kind]

\* a directory whose package.json parses to an object
Package(name, version, jr) ==
    [exists |-> TRUE, pkg |-> "object", name |-> name, version |-> version,
     junctionrelay |-> jr]

D1 == Dir("direct", "", "ticker-v1")
D2 == Dir("direct", "", "ticker-v2")
S1 == Dir("scoped", "element-", "gauge")
S0 == Dir("scoped", "", "widget")
U1 == Dir("unscoped", "junctionrelay-element-", "clock")
U0 == Dir("unscoped", "element-", "foo")
Dirs == {D1, D2, S1, S0, U1, U0}

\* mkdirSync(dir, {recursive: true}) creates the directories above dir
FsOf(entries) ==
    [root        |-> "dir",
     nodeModules |-> IF \E d \in Dirs : d.loc # "direct" /\ entries[d].exists
                     THEN "dir" ELSE "missing",
     scope       |-> IF \E d \in Dirs : d.loc = "scoped" /\ entries[d].exists
                     THEN "dir" ELSE "missing",
     entries     |-> entries]

-----------------------------------------------------------------------------
(* The scan specification: discoverPlugins applied to a directory.          *)

ValidX  == Package(Str("@test/a"), Str("1.0.0"), JrObject(ProtocolManifest("gauge-x")))
ValidX2 == Package(Undefined, Undefined, JrObject(ProtocolManifest("gauge-x")))
ValidY  == Package(Str("@test/c"), Str("2.3.1"), JrObject(ProtocolManifest("clock")))
NoField == Package(Str("foo"), Str("1.0.0"), JrValue(Undefined))
StringField == Package(Str("foo"), Str("1.0.0"), JrValue(Str("element")))
NullField == Package(Str("foo"), Str("1.0.0"), JrValue(Null))
ArrayField == Package(Str("foo"), Str("1.0.0"), JrValue(Array))
Collector ==
    Package(Str("@test/some-collector"), Str("1.0.0"),
            JrObject([EmptyManifest EXCEPT !.type = Str("collector"),
                                           !.entry = Str("dist/index.js")]))
BadElement ==
    Package(Str("bad"), Str("1.0.0"),
            JrObject([EmptyManifest EXCEPT !.type = Str("element"), !.entry = Str(""),
                                           !.elementType = Str("Bad Name")]))
BadTwoFields ==
    Package(Str("bad2"), Str("1.0.0"),
            JrObject([ProtocolManifest("clock") EXCEPT !.entry = Str(""),
                                                       !.category = Str("Nonexistent")]))
TestPackage == Package(Str("t"), Str("1.0.0"), JrObject(TestManifest("gauge-x")))
ReadmePackage ==
    Package(Str("@yourname/element-my-thing"), Str("1.0.0"), JrObject(ReadmeManifest))
ZeroSize ==
    Package(Str("@test/z"), Str("1.0.0"),
            JrObject([ProtocolManifest("el-2") EXCEPT
                         !.sensorBound = Bool(TRUE),
                         !.defaultSize = Size(Num(0), Num(-1))]))
GridModes ==
    Package(Str("@test/g"), Str("1.0.0"),
            JrObject([ProtocolManifest("el-2") EXCEPT
                         !.sensorBound = Bool(TRUE),
                         !.layoutModes = Modes(<<Str("composite"), Str("grid")>>)]))
BothFlags ==
    Package(Str("@test/b"), Str("1.0.0"),
            JrObject([ProtocolManifest("el-2") EXCEPT !.sensorBound = Bool(TRUE)]))

ScanContents ==
    {Absent, NoDescriptor("none"), NoDescriptor("unreadable"), NoDescriptor("invalid"),
     NoDescriptor("null"), NoDescriptor("number"), NoDescriptor("string"),
     NoDescriptor("array"), NoField, StringField, NullField, ArrayField, Collector, BadElement, BadTwoFields,
     ValidX, ValidX2, ValidY, TestPackage, ReadmePackage, ZeroSize, GridModes, BothFlags}

\* the six directory entries, one content each
Entries(d1, d2, s1, s0, u1, u0) ==
    [d \in Dirs |-> CASE d = D1 -> d1 [] d = D2 -> d2 [] d = S1 -> s1
                      [] d = S0 -> s0 [] d = U1 -> u1 [] d = U0 -> u0]

\* directories whose three levels all are readable directories
ScanEntries ==
    {Entries(d1, d2, s1, s0, u1, u0) :
        d1 \in ScanContents,
        d2 \in {Absent, NoDescriptor("invalid"), NoDescriptor("null"), Collector,
                BadElement, ValidX, ValidX2, ValidY, TestPackage, ReadmePackage},
        s1 \in {Absent, ValidX2, ValidY, BadElement, NoDescriptor("none")},
        s0 \in {Absent, ValidX},
        u1 \in {Absent, ValidX, ValidY},
        u0 \in {Absent, ValidX}}

Status == {"dir", "missing", "file", "unreadable"}

\* a directory that is missing or a file has nothing below it
Consistent(f) ==
    /\ f.root \in {"missing", "file"} => f.nodeModules = "missing"
    /\ f.nodeModules \in {"missing", "file"} => f.scope = "missing"
    /\ \A d \in Dirs : f.entries[d].exists =>
          /\ f.root \in {"dir", "unreadable"}
          /\ d.loc # "direct" => f.nodeModules \in {"dir", "unreadable"}
          /\ d.loc = "scoped" => f.scope \in {"dir", "unreadable"}

\* directories that are missing, not directories, or cannot be listed
DegradedInputs ==
    {f \in [root : Status, nodeModules : Status, scope : Status,
            entries : {Entries(d1, Absent, s1, Absent, u1, Absent) :
                          d1 \in {Absent, ValidX}, s1 \in {Absent, ValidY},
                          u1 \in {Absent, ValidY}}] :
        Consistent(f)}

ScanInputs == {FsOf(e) : e \in ScanEntries} \cup DegradedInputs

NoReturn == [valid |-> FALSE, map |-> <<>>, candidates |-> <<>>, clean |-> FALSE]
NotRead == [called |-> FALSE, all |-> <<>>, of |-> <<>>]

NotScanned ==
    [done |-> FALSE, threw |-> FALSE, plugins |-> <<>>, skipped |-> <<>>,
     candidates |-> <<>>]

\* validateManifest has not been called
NoResult == [done |-> FALSE, valid |-> FALSE, errors |-> <<>>]
NoParse == [done |-> FALSE, manifest |-> JrValue(Null), errors |-> <<>>]
NotValidated ==
    [sdk |-> NoResult, namespaced |-> NoResult,
     parsed |-> NoParse, parsedNamespaced |-> NoParse]
NoManifest == JrValue(Undefined)

InitScan ==
    /\ fs \in ScanInputs
    /\ outcome = NotScanned
    /\ officialPackages = {}
    /\ pc = "scan"
    /\ registry = <<>>
    /\ stack = <<>>
    /\ seen = NotRead
    /\ installed = <<>>
    /\ prevReturn = NoReturn
    /\ dirty = FALSE
    /\ fsChanges = 0
    /\ lastCall = "none"
    /\ input = NoManifest
    /\ validation = NotValidated

\* one call of discoverPlugins(elementsDir)
Scan ==
    /\ pc = "scan"
    /\ ~outcome.done
    /\ \E candidates \in ScanOrders(fs) :
          LET r == discoverPlugins(fs, candidates)
          IN  outcome' = [done |-> TRUE, threw |-> r.threw,
                          plugins |-> r.plugins, skipped |-> r.skipped,
                          candidates |-> candidates]
    /\ UNCHANGED <<fs, officialPackages, pc, registry, stack, seen, installed,
                   prevReturn, dirty, fsChanges, lastCall, input, validation>>

NextScan == Scan

SpecScan == InitScan /\ [][NextScan]_vars

-----------------------------------------------------------------------------
(* registry.ts: createRegistry, build and the registry object.              *)

MaxDepth == 2
MaxFsChanges == 2

\* a map that iterates from the newest key to the oldest
MapSet_Prepend(map, key, value) ==
    IF \E i \in 1..Len(map) : map[i].key = key
    THEN [i \in 1..Len(map) |-> IF map[i].key = key
                                THEN [key |-> key, value |-> value] ELSE map[i]]
    ELSE <<[key |-> key, value |-> value]>> \o map

\* Map.prototype.set: a new key goes last, a known key keeps its place
MapSet(map, key, value) ==
    IF \E i \in 1..Len(map) : map[i].key = key
    THEN [i \in 1..Len(map) |-> IF map[i].key = key
                                THEN [key |-> key, value |-> value] ELSE map[i]]
    ELSE Append(map, [key |-> key, value |-> value])

\* Map.prototype.has / get / keys / values / size
MapHas(map, key) == \E i \in 1..Len(map) : map[i].key = key
MapKeys(map) == [i \in 1..Len(map) |-> map[i].key]
MapValues(map) == [i \in 1..Len(map) |-> map[i].value]

\* the two branches of the conditional swapped
Tier_Swapped(official, name) ==
    IF name.t = "string" /\ name.s \in official THEN "community" ELSE "official"

\* officialSet.has(plugin.name) ? 'official' : 'community'
Tier(official, name) ==
    IF name.t = "string" /\ name.s \in official THEN "official" ELSE "community"

\* a definition that takes over what the live entry of the same identifier
\* holds from the loader
Definition_KeepLoaded(plugin, official) ==
    LET fresh == [manifest |-> plugin.manifest, name |-> plugin.name,
                  version |-> plugin.version, tier |-> Tier(official, plugin.name),
                  loaded |-> FALSE, Renderer |-> "undefined",
                  PropertiesPanel |-> "undefined", error |-> "undefined"]
        id == plugin.manifest.elementType.s
    IN  IF \E i \in 1..Len(registry) : registry[i].key = id
        THEN LET old == (CHOOSE e \in {registry[i] : i \in 1..Len(registry)} :
                            e.key = id).value
             IN  [fresh EXCEPT !.loaded = old.loaded, !.Renderer = old.Renderer,
                               !.PropertiesPanel = old.PropertiesPanel,
                               !.error = old.error]
        ELSE fresh

\* the definition build() stores for a discovered plugin
Definition(plugin, official) ==
    [manifest |-> plugin.manifest, name |-> plugin.name, version |-> plugin.version,
     tier |-> Tier(official, plugin.name), loaded |-> FALSE,
     Renderer |-> "undefined", PropertiesPanel |-> "undefined", error |-> "undefined"]

\* the new map starting as the live map: a merge
NewMap_Merge == registry

\* new Map() of `const newRegistry = new Map()`
NewMap == <<>>

\* no build has finished while a callback of the build was running
NoNested == [returned |-> FALSE, map |-> <<>>]

\* the activation record of one build() call: the scan result, the map under
\* construction and the loop positions; candidates, the observer logs,
\* clean (no directory change since the previous refresh's scan), before (the
\* live map when the build started) and nested (the map of the last build
\* that finished while a callback of this build was running) are history
Frame(r, candidates, clean) ==
    [result |-> [plugins |-> r.plugins, skipped |-> r.skipped],
     newRegistry |-> NewMap, i |-> 1, j |-> 1, inCallback |-> FALSE,
     candidates |-> candidates, scanned |-> fs,
     foundLog |-> <<>>, skipLog |-> <<>>, clean |-> clean,
     before |-> registry, nested |-> NoNested]

Top == stack[Len(stack)]
SetTop(f) == [stack EXCEPT ![Len(stack)] = f]
Pop == SubSeq(stack, 1, Len(stack) - 1)
\* build() returns to its caller, for a nested build the callback that
\* called refresh(); every build still running has had a build finish
\* inside one of its callbacks
PopReturned ==
    [k \in 1..(Len(stack) - 1) |->
        [stack[k] EXCEPT !.nested = [returned |-> TRUE, map |-> Top.newRegistry]]]

\* the plugin directories the host writes: two candidates for the same
\* identifier (one named, one taking its directory's name), a second
\* identifier, a rejected manifest, a descriptor that is the JSON text null
RegWrites ==
    {<<D1, ValidX>>, <<D1, BadElement>>, <<D1, NoDescriptor("null")>>,
     <<D2, ValidX2>>, <<S1, ValidY>>}

\* the elements directory before the host writes to it: another plugin
\* kind is installed in its dependency cache
InitialDir == FsOf(Entries(Absent, Absent, Absent, Absent, Collector, Absent))
RegDirs == {D1, D2, S1}
OfficialChoices == {{}, {"@test/a", "ticker-v2"}}

Init ==
    /\ fs = InitialDir
    /\ officialPackages \in OfficialChoices
    /\ pc = "start"
    /\ registry = <<>>
    /\ stack = <<>>
    /\ seen = NotRead
    /\ installed = <<>>
    /\ prevReturn = NoReturn
    /\ dirty = FALSE
    /\ fsChanges = 0
    /\ lastCall = "none"
    /\ outcome = NotScanned
    /\ input = NoManifest
    /\ validation = NotValidated

\* the host or a user puts a plugin directory into the elements directory
WritePlugin(d, c) ==
    /\ fsChanges < MaxFsChanges
    /\ stack # <<>> => Top.inCallback
    /\ fs.entries[d] # c
    /\ fs' = FsOf([fs.entries EXCEPT ![d] = c])
    /\ fsChanges' = fsChanges + 1
    /\ dirty' = TRUE
    /\ UNCHANGED <<officialPackages, pc, registry, stack, seen, installed,
                   prevReturn, lastCall, outcome,
                   input, validation>>

\* a plugin directory is deleted; the directories above it stay
RemovePlugin(d) ==
    /\ fsChanges < MaxFsChanges
    /\ stack # <<>> => Top.inCallback
    /\ fs.entries[d].exists
    /\ fs' = [fs EXCEPT !.entries[d] = Absent]
    /\ fsChanges' = fsChanges + 1
    /\ dirty' = TRUE
    /\ UNCHANGED <<officialPackages, pc, registry, stack, seen, installed,
                   prevReturn, lastCall, outcome,
                   input, validation>>

\* createRegistry(options) up to the scan of its initial build()
CreateRegistry ==
    /\ pc = "start"
    /\ \E candidates \in ScanOrders(fs) :
          LET r == discoverPlugins(fs, candidates)
          IN  IF r.threw
              THEN /\ pc' = "failed"
                   /\ lastCall' = "threw"
                   /\ UNCHANGED stack
              ELSE /\ pc' = "creating"
                   /\ lastCall' = "running"
                   /\ stack' = <<Frame(r, candidates, FALSE)>>
    /\ UNCHANGED <<fs, officialPackages, registry, seen, installed, prevReturn,
                   dirty, fsChanges, outcome,
                   input, validation>>

\* registry.refresh() up to the scan of its build(), called by the host or
\* from inside an observer callback of a running build
Refresh ==
    /\ pc = "ready"
    /\ Len(stack) < MaxDepth
    /\ stack # <<>> => Top.inCallback
    /\ \E candidates \in ScanOrders(fs) :
          LET r == discoverPlugins(fs, candidates)
          IN  IF r.threw
              THEN /\ lastCall' = "threw"
                   /\ UNCHANGED <<stack, dirty>>
              ELSE /\ lastCall' = "running"
                   /\ stack' = Append(stack,
                                  Frame(r, candidates,
                                        stack = <<>> /\ ~dirty /\ prevReturn.valid))
                   /\ dirty' = IF stack = <<>> THEN FALSE ELSE dirty
    /\ UNCHANGED <<fs, officialPackages, pc, registry, seen, installed, prevReturn,
                   fsChanges, outcome,
                   input, validation>>

\* the loop writing into the live map instead of a new one
BuildPlugin_InPlace ==
    /\ stack # <<>>
    /\ ~Top.inCallback
    /\ Top.i <= Len(Top.result.plugins)
    /\ LET plugin == Top.result.plugins[Top.i]
           map == MapSet(Top.newRegistry, plugin.manifest.elementType.s,
                         Definition(plugin, officialPackages))
       IN  /\ stack' = SetTop([Top EXCEPT !.newRegistry = map,
                                          !.foundLog = Append(@, plugin),
                                          !.inCallback = TRUE])
           /\ registry' = map
    /\ UNCHANGED <<fs, officialPackages, pc, seen, installed, prevReturn,
                   dirty, fsChanges, lastCall, outcome,
                   input, validation>>

\* the loop telling the observer only about identifiers the live map lacks
BuildPlugin_OnlyNew ==
    /\ stack # <<>>
    /\ ~Top.inCallback
    /\ Top.i <= Len(Top.result.plugins)
    /\ LET plugin == Top.result.plugins[Top.i]
           map == MapSet(Top.newRegistry, plugin.manifest.elementType.s,
                         Definition(plugin, officialPackages))
       IN  stack' = SetTop(IF MapHas(registry, plugin.manifest.elementType.s)
                           THEN [Top EXCEPT !.newRegistry = map, !.i = @ + 1]
                           ELSE [Top EXCEPT !.newRegistry = map,
                                            !.foundLog = Append(@, plugin),
                                            !.inCallback = TRUE])
    /\ UNCHANGED <<fs, officialPackages, pc, registry, seen, installed, prevReturn,
                   dirty, fsChanges, lastCall, outcome,
                   input, validation>>

\* one round of `for (const plugin of result.plugins)`: newRegistry.set and
\* the call of onPluginFound
BuildPlugin ==
    /\ stack # <<>>
    /\ ~Top.inCallback
    /\ Top.i <= Len(Top.result.plugins)
    /\ LET plugin == Top.result.plugins[Top.i]
       IN  stack' = SetTop([Top EXCEPT
                !.newRegistry = MapSet(@, plugin.manifest.elementType.s,
                                       Definition(plugin, officialPackages)),
                !.foundLog = Append(@, plugin),
                !.inCallback = TRUE])
    /\ UNCHANGED <<fs, officialPackages, pc, registry, seen, installed, prevReturn,
                   dirty, fsChanges, lastCall, outcome,
                   input, validation>>

\* one round of `for (const entry of result.skipped)`: the call of
\* onPluginSkipped
BuildSkipped ==
    /\ stack # <<>>
    /\ ~Top.inCallback
    /\ Top.i > Len(Top.result.plugins)
    /\ Top.j <= Len(Top.result.skipped)
    /\ LET entry == Top.result.skipped[Top.j]
       IN  stack' = SetTop([Top EXCEPT
                !.skipLog = Append(@, [path |-> entry.path, reason |-> entry.reason]),
                !.inCallback = TRUE])
    /\ UNCHANGED <<fs, officialPackages, pc, registry, seen, installed, prevReturn,
                   dirty, fsChanges, lastCall, outcome,
                   input, validation>>

\* the observer callback returns; the loop goes on with the next item
CallbackReturn ==
    /\ stack # <<>>
    /\ Top.inCallback
    /\ stack' = SetTop(IF Top.i <= Len(Top.result.plugins)
                       THEN [Top EXCEPT !.i = @ + 1, !.inCallback = FALSE]
                       ELSE [Top EXCEPT !.j = @ + 1, !.inCallback = FALSE])
    /\ UNCHANGED <<fs, officialPackages, pc, registry, seen, installed, prevReturn,
                   dirty, fsChanges, lastCall, outcome,
                   input, validation>>

\* a build that installs what it has stored when the callback throws
CallbackThrow_Install ==
    /\ stack # <<>>
    /\ Top.inCallback
    /\ stack' = Pop
    /\ registry' = Top.newRegistry
    /\ pc' = IF pc = "creating" THEN "failed" ELSE pc
    /\ lastCall' = "threw"
    /\ dirty' = IF Len(stack) = 1 THEN TRUE ELSE dirty
    /\ UNCHANGED <<fs, officialPackages, seen, installed, prevReturn,
                   fsChanges, outcome,
                   input, validation>>

\* the observer callback throws: build() is left before `registry = newRegistry`
CallbackThrow ==
    /\ stack # <<>>
    /\ Top.inCallback
    /\ stack' = Pop
    /\ pc' = IF pc = "creating" THEN "failed" ELSE pc
    /\ lastCall' = "threw"
    /\ dirty' = IF Len(stack) = 1 THEN TRUE ELSE dirty
    /\ UNCHANGED <<fs, officialPackages, registry, seen, installed, prevReturn,
                   fsChanges, outcome,
                   input, validation>>

\* `registry = newRegistry` and the return of build()
BuildFinish ==
    /\ stack # <<>>
    /\ ~Top.inCallback
    /\ Top.i > Len(Top.result.plugins)
    /\ Top.j > Len(Top.result.skipped)
    /\ registry' = Top.newRegistry
    /\ stack' = PopReturned
    /\ pc' = IF pc = "creating" THEN "ready" ELSE pc
    /\ lastCall' = "returned"
    /\ installed' = Top.result.plugins
    /\ prevReturn' = IF Len(stack) = 1 /\ pc = "ready"
                     THEN [valid |-> TRUE, map |-> Top.newRegistry,
                           candidates |-> Top.candidates, clean |-> Top.clean]
                     ELSE prevReturn
    /\ UNCHANGED <<fs, officialPackages, seen, dirty, fsChanges, outcome,
                   input, validation>>

\* what Map.get answers for a key the map does not hold
NoDefinition == [undefined |-> TRUE]

\* the accessors of the registry object, all reading the live map
get(elementType) ==
    IF MapHas(registry, elementType)
    THEN (CHOOSE e \in {registry[i] : i \in 1..Len(registry)} :
             e.key = elementType).value
    ELSE NoDefinition
has(elementType) == MapHas(registry, elementType)
getAll == MapValues(registry)
getElementTypes == MapKeys(registry)
size == Len(registry)

\* a read that rebuilds nothing but forgets the entries of a directory that
\* changed since the last build
Read_Invalidate ==
    /\ pc = "ready"
    /\ stack # <<>> => Top.inCallback
    /\ seen' = [called |-> TRUE, all |-> MapValues(registry), of |-> installed]
    /\ registry' = IF dirty THEN <<>> ELSE registry
    /\ UNCHANGED <<fs, officialPackages, pc, stack, installed, prevReturn,
                   dirty, fsChanges, lastCall, outcome,
                   input, validation>>

\* getAll() (get, has, getElementTypes and size read the same map), called
\* by the host or from inside an observer callback
Read ==
    /\ pc = "ready"
    /\ stack # <<>> => Top.inCallback
    /\ seen' = [called |-> TRUE, all |-> MapValues(registry), of |-> installed]
    /\ UNCHANGED <<fs, officialPackages, pc, registry, stack, installed, prevReturn,
                   dirty, fsChanges, lastCall, outcome,
                   input, validation>>

Next ==
    \/ \E w \in RegWrites : WritePlugin(w[1], w[2])
    \/ \E d \in RegDirs : RemovePlugin(d)
    \/ CreateRegistry
    \/ Refresh
    \/ BuildPlugin
    \/ BuildSkipped
    \/ CallbackReturn
    \/ CallbackThrow
    \/ BuildFinish
    \/ Read

Spec == Init /\ [][Next]_vars

-----------------------------------------------------------------------------
(* The registry next to the loader that consumes it: the host builds the    *)
(* registry over a directory of installed plugins, and the loader writes    *)
(* the outcome of its dynamic imports into the entries it is handed.        *)

\* what the loader leaves in an entry after a dynamic import that
\* succeeded, and after one that failed
LoaderWrites ==
    {[loaded |-> TRUE, Renderer |-> "component", PropertiesPanel |-> "component",
      error |-> "undefined"],
     [loaded |-> FALSE, Renderer |-> "undefined", PropertiesPanel |-> "undefined",
      error |-> "import failed"]}

\* the loader writes the outcome of its import into the entry that get()
\* or getAll() handed out for the i-th identifier
LoadPlugin(i, w) ==
    /\ pc = "ready"
    /\ stack # <<>> => Top.inCallback
    /\ i \in 1..Len(registry)
    /\ ~registry[i].value.loaded
    /\ registry[i].value.error = "undefined"
    /\ registry' = [registry EXCEPT ![i].value =
           [@ EXCEPT !.loaded = w.loaded, !.Renderer = w.Renderer,
                     !.PropertiesPanel = w.PropertiesPanel, !.error = w.error]]
    /\ UNCHANGED <<fs, officialPackages, pc, stack, seen, installed, prevReturn,
                   dirty, fsChanges, lastCall, outcome, input, validation>>

\* an elements directory with two plugins installed next to a package that
\* is skipped
InstalledDir == FsOf(Entries(BadElement, ValidX2, Absent, Absent, ValidY, Absent))

InitLoader ==
    /\ fs = InstalledDir
    /\ officialPackages \in OfficialChoices
    /\ pc = "start"
    /\ registry = <<>>
    /\ stack = <<>>
    /\ seen = NotRead
    /\ installed = <<>>
    /\ prevReturn = NoReturn
    /\ dirty = FALSE
    /\ fsChanges = 0
    /\ lastCall = "none"
    /\ outcome = NotScanned
    /\ input = NoManifest
    /\ validation = NotValidated

\* the host refreshes between builds only; refresh() from inside a callback
\* is the subject of Spec
NextLoader ==
    \/ CreateRegistry
    \/ stack = <<>> /\ Refresh
    \/ BuildPlugin
    \/ BuildSkipped
    \/ CallbackReturn
    \/ CallbackThrow
    \/ BuildFinish
    \/ Read
    \/ \E i \in 1..Len(registry), w \in LoaderWrites : LoadPlugin(i, w)

SpecLoader == InitLoader /\ [][NextLoader]_vars

-----------------------------------------------------------------------------
(* The validation specification: validateManifest, in both revisions of     *)
(* validation.ts, applied to a value.                                       *)

\* null as the manifest of a parse result
NullManifest == JrValue(Null)

\* a parse that hands out the junctionrelay value whatever the validation says
parsePackageManifest_KeepManifest(packageJson) ==
    LET junctionrelay == packageJson.junctionrelay
        result == validateManifest(junctionrelay)
    IN  IF \/ junctionrelay.t = "null"
           \/ junctionrelay.t = "undefined"
           \/ junctionrelay.t \notin {"object", "array"}
        THEN [manifest |-> NullManifest,
              errors   |-> <<"package.json missing \"junctionrelay\" field">>]
        ELSE [manifest |-> junctionrelay, errors |-> result.errors]

\* parsePackageManifest(packageJson) of packages/sdk/src/validation.ts; the
\* manifest it returns is null or the junctionrelay value of packageJson
parsePackageManifest(packageJson) ==
    LET junctionrelay == packageJson.junctionrelay
        result == validateManifest(junctionrelay)
    IN  IF \/ junctionrelay.t = "null"
           \/ junctionrelay.t = "undefined"
           \/ junctionrelay.t \notin {"object", "array"}
        THEN [manifest |-> NullManifest,
              errors   |-> <<"package.json missing \"junctionrelay\" field">>]
        ELSE IF ~result.valid
        THEN [manifest |-> NullManifest, errors |-> result.errors]
        ELSE [manifest |-> junctionrelay, errors |-> <<>>]

\* parsePackageManifest of the namespaced revision
parsePackageManifestNamespaced(packageJson) ==
    LET junctionrelay == packageJson.junctionrelay
        result == validateManifestNamespaced(junctionrelay)
    IN  IF \/ junctionrelay.t = "null"
           \/ junctionrelay.t = "undefined"
           \/ junctionrelay.t \notin {"object", "array"}
        THEN [manifest |-> NullManifest,
              errors   |-> <<"package.json missing \"junctionrelay\" field">>]
        ELSE IF ~result.valid
        THEN [manifest |-> NullManifest, errors |-> result.errors]
        ELSE [manifest |-> junctionrelay, errors |-> <<>>]

\* VALID_MANIFEST of validation.test.ts
SdkTestManifest ==
    [EmptyManifest EXCEPT
        !.type = Str("element"), !.entry = Str("dist/index.js"),
        !.elementType = Str("stock-ticker"), !.displayName = Str("Stock Ticker"),
        !.description = Str("Real-time stock price display with sparkline"),
        !.category = Str("Data"), !.icon = Str("TrendingUp"),
        !.sensorTagCompatible = Bool(TRUE),
        !.defaultSize = Size(Num(300), Num(80)),
        !.defaultProperties = Object,
        !.layoutModes = Modes(<<Str("composite")>>)]

\* the manifest of its 'collects multiple errors' test
MultipleErrorsManifest ==
    [EmptyManifest EXCEPT
        !.type = Str("collector"), !.entry = Str(""),
        !.elementType = Str("Bad Name"), !.displayName = Str(""),
        !.description = Str(""), !.category = Str("Wrong"), !.icon = Str(""),
        !.sensorTagCompatible = Str("no"),
        !.defaultSize = [t |-> "null", width |-> Undefined, height |-> Undefined],
        !.defaultProperties = Null]

\* descriptions at and just over the length cap
Description120 == "xxxxxxxxxxxxxxxxxxxxxxxxxxxxxxxxxxxxxxxxxxxxxxxxxxxxxxxxxxxxxxxxxxxxxxxxxxxxxxxxxxxxxxxxxxxxxxxxxxxxxxxxxxxxxxxxxxxxxxxx"
Description121 == Description120 \o "x"

\* the two sensor flags: [sensorBound, sensorTagCompatible]
FlagChoices ==
    {<<Bool(TRUE), Undefined>>, <<Undefined, Bool(TRUE)>>, <<Undefined, Str("yes")>>}

\* manifests that differ from VALID_MANIFEST in their string properties
StringFieldManifests ==
    {[SdkTestManifest EXCEPT
        !.type = ty, !.entry = en, !.elementType = et, !.displayName = dn,
        !.description = de, !.category = ca, !.icon = ic,
        !.sensorBound = fl[1], !.sensorTagCompatible = fl[2],
        !.layoutModes = NoModes] :
        ty \in {Str("element"), Str("collector")},
        en \in {Str("dist/index.js"), Str("")},
        et \in {Str("stock-ticker"), Str("gauge"), Str("junctionrelay.stock-ticker"),
                Str("Bad Name")},
        dn \in {Str("Stock Ticker"), Str("")},
        de \in {Str("d"), Str(""), Str(Description120), Str(Description121)},
        ca \in {Str("Data"), Str("Custom")},
        ic \in {Str("TrendingUp"), Undefined},
        fl \in FlagChoices}

\* manifests that differ from it in defaultSize, defaultProperties and
\* layoutModes
StructuredFieldManifests ==
    {[SdkTestManifest EXCEPT
        !.elementType = et, !.sensorBound = fl[1], !.sensorTagCompatible = fl[2],
        !.defaultSize = ds, !.defaultProperties = dp, !.layoutModes = lm] :
        et \in {Str("stock-ticker"), Str("junctionrelay.stock-ticker")},
        fl \in FlagChoices,
        ds \in {Size(Num(300), Num(80)), Size(Num(0), Num(80)), Size(Num(300), Num(-1)),
                Size(Num(100), Undefined),
                [t |-> "null", width |-> Undefined, height |-> Undefined]},
        dp \in {Object, Array, Null},
        lm \in {NoModes, Modes(<<>>), Modes(<<Str("composite")>>),
                Modes(<<Str("pixel"), Str("composite")>>),
                Modes(<<Str("composite"), Str("grid")>>),
                Modes(<<Str("grid"), Num(1), Str("pixel"), Str("flow")>>),
                Modes(<<Null>>),
                [t |-> "string", items |-> <<>>],
                [t |-> "null", items |-> <<>>]}}

\* the values validateManifest is called with
ValidateInputs ==
    {JrObject(m) : m \in StringFieldManifests \cup StructuredFieldManifests
                          \cup {MultipleErrorsManifest, EmptyManifest}}
    \cup {JrValue(v) : v \in {Null, Undefined, Str("element"), Num(1), Bool(TRUE), Array}}

InitValidate ==
    /\ input \in ValidateInputs
    /\ validation = NotValidated
    /\ pc = "validate"
    /\ fs = InitialDir
    /\ outcome = NotScanned
    /\ officialPackages = {}
    /\ registry = <<>>
    /\ stack = <<>>
    /\ seen = NotRead
    /\ installed = <<>>
    /\ prevReturn = NoReturn
    /\ dirty = FALSE
    /\ fsChanges = 0
    /\ lastCall = "none"

\* validateManifest(manifest) of packages/sdk/src/validation.ts
Validate ==
    /\ pc = "validate"
    /\ ~validation.sdk.done
    /\ validation' = [validation EXCEPT !.sdk =
           [done   |-> TRUE,
            valid  |-> validateManifest(input).valid,
            errors |-> validateManifest(input).errors]]
    /\ UNCHANGED <<fs, officialPackages, pc, registry, stack, seen, installed,
                   prevReturn, dirty, fsChanges, lastCall, outcome, input>>

\* validateManifest(manifest) of the namespaced revision
ValidateNamespaced ==
    /\ pc = "validate"
    /\ ~validation.namespaced.done
    /\ validation' = [validation EXCEPT !.namespaced =
           [done   |-> TRUE,
            valid  |-> validateManifestNamespaced(input).valid,
            errors |-> validateManifestNamespaced(input).errors]]
    /\ UNCHANGED <<fs, officialPackages, pc, registry, stack, seen, installed,
                   prevReturn, dirty, fsChanges, lastCall, outcome, input>>

\* parsePackageManifest(packageJson) for a package.json whose junctionrelay
\* field is the input (absent when the input is undefined)
ParsePackageManifest ==
    /\ pc = "validate"
    /\ ~validation.parsed.done
    /\ LET r == parsePackageManifest(Package(Str("foo"), Str("1.0.0"), input))
       IN  validation' = [validation EXCEPT !.parsed =
               [done |-> TRUE, manifest |-> r.manifest, errors |-> r.errors]]
    /\ UNCHANGED <<fs, officialPackages, pc, registry, stack, seen, installed,
                   prevReturn, dirty, fsChanges, lastCall, outcome, input>>

\* parsePackageManifest(packageJson) of the namespaced revision
ParsePackageManifestNamespaced ==
    /\ pc = "validate"
    /\ ~validation.parsedNamespaced.done
    /\ LET r == parsePackageManifestNamespaced(Package(Str("foo"), Str("1.0.0"), input))
       IN  validation' = [validation EXCEPT !.parsedNamespaced =
               [done |-> TRUE, manifest |-> r.manifest, errors |-> r.errors]]
    /\ UNCHANGED <<fs, officialPackages, pc, registry, stack, seen, installed,
                   prevReturn, dirty, fsChanges, lastCall, outcome, input>>

NextValidate ==
    \/ Validate
    \/ ValidateNamespaced
    \/ ParsePackageManifest
    \/ ParsePackageManifestNamespaced

SpecValidate == InitValidate /\ [][NextValidate]_vars

-----------------------------------------------------------------------------
(* Properties.                                                              *)

Range(seq) == {seq[i] : i \in 1..Len(seq)}
KeySet(map) == {map[i].key : i \in 1..Len(map)}
IdSet(plugins) == {plugins[i].manifest.elementType.s : i \in 1..Len(plugins)}

\* the map a finished build holds for a plugins list: one fresh entry per
\* plugin, in list order
ExpectedMap(plugins, official) ==
    [i \in 1..Len(plugins) |->
        [key   |-> plugins[i].manifest.elementType.s,
         value |-> [manifest |-> plugins[i].manifest, name |-> plugins[i].name,
                    version |-> plugins[i].version,
                    tier |-> IF plugins[i].name.t = "string"
                                /\ plugins[i].name.s \in official
                             THEN "official" ELSE "community",
                    loaded |-> FALSE, Renderer |-> "undefined",
                    PropertiesPanel |-> "undefined", error |-> "undefined"]]]

\* the candidate's descriptor declares an element plugin
DeclaresElement(c) ==
    /\ c.exists
    /\ c.pkg = "object"
    /\ c.junctionrelay.t = "object"
    /\ c.junctionrelay.m.type = Str("element")

\* the candidate passes the host's own validation
HostValid(c) == DeclaresElement(c) /\ validateElementManifest(c.junctionrelay.m) = <<>>

\* the candidate leaves no trace in a scan
Silent(c) ==
    \/ c.pkg \in {"none", "number", "string", "array"}
    \/ c.pkg = "object" /\ ~DeclaresElement(c)

PluginsAt(path) == {k \in 1..Len(outcome.plugins) : outcome.plugins[k].path = path}
SkipsAt(path) == {k \in 1..Len(outcome.skipped) : outcome.skipped[k].path = path}

\* a build of the registry returns: the step that installs the new map
Returns == stack # <<>> /\ stack' = PopReturned /\ lastCall' = "returned"

\* a refresh() called by the host returns
RefreshReturns == Len(stack) = 1 /\ pc = "ready" /\ Returns

\* C1: whatever a reader is handed, at any point of any build and from
\* inside an observer callback too, is the complete map of a finished
\* build's scan, never the map a running build has filled so far.
C1_NoPartialMap ==
    /\ registry = ExpectedMap(installed, officialPackages)
    /\ seen.called => seen.all = MapValues(ExpectedMap(seen.of, officialPackages))

\* a reader inside an observer callback of a refresh whose new map holds
\* some but not all of the scan's plugins
C1_Witness ==
    /\ pc = "ready"
    /\ stack # <<>>
    /\ Top.inCallback
    /\ Len(Top.newRegistry) >= 1
    /\ Len(Top.newRegistry) < Len(Top.result.plugins)
    /\ KeySet(Top.newRegistry) # KeySet(registry)
    /\ seen.called
    /\ seen.all = MapValues(registry)
    /\ seen.of = installed

\* C2: when createRegistry or refresh() returns, the registry's keys are
\* exactly the element identifiers of the plugins of the scan that this
\* call performed; nothing of the previous map is merged in.
C2_KeysAreScanIds ==
    [][Returns => KeySet(registry') = IdSet(Top.result.plugins)]_vars

\* a refresh returned and an identifier a reader saw before it is gone
C2_Witness ==
    /\ pc = "ready"
    /\ stack = <<>>
    /\ lastCall = "returned"
    /\ prevReturn.valid
    /\ seen.called
    /\ \E i \in 1..Len(seen.all) :
          seen.all[i].manifest.elementType.s \notin KeySet(registry)

\* C3: discoverPlugins never throws, whatever is on disk.
C3_NeverThrows == outcome.done => ~outcome.threw

\* C4: of the valid candidates of one scan that declare the same element
\* identifier, the first one processed is the only plugin returned for that
\* identifier, and every later one gets exactly one skipped entry, with the
\* Duplicate reason.
C4_DuplicateSuppression ==
    (outcome.done /\ ~outcome.threw) =>
        LET cands == outcome.candidates
            idOf(i) == fs.entries[cands[i]].junctionrelay.m.elementType.s
            valid == {i \in 1..Len(cands) : HostValid(fs.entries[cands[i]])}
        IN  \A i \in valid :
                LET same == {k \in valid : idOf(k) = idOf(i)}
                    first == CHOOSE k \in same : \A l \in same : k <= l
                    path == DirPath(cands[i])
                IN  /\ Cardinality({k \in 1..Len(outcome.plugins) :
                           outcome.plugins[k].manifest.elementType.s = idOf(i)}) = 1
                    /\ i = first =>
                          /\ Cardinality(PluginsAt(path)) = 1
                          /\ SkipsAt(path) = {}
                    /\ i # first =>
                          /\ PluginsAt(path) = {}
                          /\ Cardinality(SkipsAt(path)) = 1
                          /\ \A k \in SkipsAt(path) :
                                outcome.skipped[k].reason = DuplicateReason(idOf(i))

\* a scan over two valid candidates for one identifier, with another
\* plugin between them
C4_Witness ==
    /\ outcome.done
    /\ ~outcome.threw
    /\ Len(outcome.plugins) = 2
    /\ \E k \in 1..Len(outcome.skipped) :
          outcome.skipped[k].reason = DuplicateReason("gauge-x")
    /\ \E i, j \in 1..Len(outcome.candidates) :
          /\ i + 1 < j
          /\ HostValid(fs.entries[outcome.candidates[i]])
          /\ HostValid(fs.entries[outcome.candidates[j]])
          /\ fs.entries[outcome.candidates[i]].junctionrelay.m.elementType = Str("gauge-x")
          /\ fs.entries[outcome.candidates[j]].junctionrelay.m.elementType = Str("gauge-x")

\* C5: a candidate that declares type 'element' is accepted by the scan
\* exactly when validateManifest reports its manifest valid, so every
\* manifest of a returned plugin passes validateManifest.
C5_AcceptedIffValid ==
    (outcome.done /\ ~outcome.threw) =>
        /\ \A i \in 1..Len(outcome.candidates) :
              LET c == fs.entries[outcome.candidates[i]]
              IN  DeclaresElement(c) =>
                      (HostValid(c) <=> validateManifest(c.junctionrelay).valid)
        /\ \A k \in 1..Len(outcome.plugins) :
              validateManifest(JrObject(outcome.plugins[k].manifest)).valid

\* C6: a root whose only entry is a direct subfolder holding the test
\* suites' manifest (sensorBound flag) yields that one plugin and no
\* skipped entry.
C6_TestManifestDiscovered ==
    (outcome.done
        /\ fs = FsOf(Entries(TestPackage, Absent, Absent, Absent, Absent, Absent))) =>
        /\ Len(outcome.plugins) = 1
        /\ outcome.plugins[1].manifest.elementType = Str("gauge-x")
        /\ outcome.skipped = <<>>

\* C7: a package whose manifest follows the README template (elementName
\* 'yourname.my-thing', sensorTagCompatible, layoutModes) is returned as a
\* plugin and is not skipped.
C7_ReadmeTemplateDiscovered ==
    (outcome.done /\ ~outcome.threw /\ fs.root = "dir"
        /\ fs.entries[D1] = ReadmePackage) =>
        /\ PluginsAt(DirPath(D1)) # {}
        /\ SkipsAt(DirPath(D1)) = {}

\* C8 as stated: two refresh() calls with no directory change between their
\* scans leave the same entries, whatever the directory holds and in
\* whatever order each scan enumerates it.
C8_IdempotentAnyOrder ==
    [][(RefreshReturns /\ Top.clean) => Range(registry') = Range(prevReturn.map)]_vars

\* C8 amended: two refresh() calls with no directory change between their
\* scans leave the same set of identifiers, and the same entries in the
\* same order when both scans enumerate the directory in the same order.
C8_IdempotentSameOrder ==
    [][(RefreshReturns /\ Top.clean) =>
          /\ KeySet(registry') = KeySet(prevReturn.map)
          /\ Top.candidates = prevReturn.candidates => registry' = prevReturn.map]_vars

\* the second of two refresh() calls over an unchanged directory with two
\* candidates for one identifier has returned
C8_Witness ==
    /\ stack = <<>>
    /\ lastCall = "returned"
    /\ prevReturn.valid
    /\ prevReturn.clean
    /\ Len(prevReturn.candidates) >= 2
    /\ fs.entries[D1] = ValidX
    /\ fs.entries[D2] = ValidX2
    /\ registry = prevReturn.map
    /\ Len(registry) = 1

\* C9: in the live map and in every map under construction an entry is
\* 'official' exactly when its package name, the directory-name fallback
\* included, is one of officialPackages, and 'community' otherwise.
C9_TierClassification ==
    LET Classified(map) ==
            \A i \in 1..Len(map) :
                LET e == map[i].value
                IN  /\ e.tier \in {"official", "community"}
                    /\ e.tier = "official" <=>
                          (e.name.t = "string" /\ e.name.s \in officialPackages)
    IN  /\ Classified(registry)
        /\ \A k \in 1..Len(stack) : Classified(stack[k].newRegistry)

\* a registry with an official entry named after its directory and a
\* community entry
C9_Witness ==
    /\ pc = "ready"
    /\ \E i, j \in 1..Len(registry) :
          /\ registry[i].value.tier = "official"
          /\ registry[i].value.name = Str("ticker-v2")
          /\ registry[j].value.tier = "community"

\* C10: in every build the observers have been called once for each item
\* the loops have passed, in list order, with the item's own path and
\* reason, so a build that returns has called onPluginFound once per plugin
\* and onPluginSkipped once per skipped entry of its scan; no call is for a
\* directory the scan passes over silently.
C10_ObserverReplay ==
    \A k \in 1..Len(stack) :
        LET f == stack[k]
            np == Len(f.result.plugins)
            found == IF f.inCallback /\ f.i <= np THEN f.i ELSE f.i - 1
            skips == IF f.inCallback /\ f.i > np THEN f.j ELSE f.j - 1
        IN  /\ f.foundLog = SubSeq(f.result.plugins, 1, found)
            /\ f.skipLog = SubSeq(f.result.skipped, 1, skips)
            /\ \A n \in 1..Len(f.skipLog) :
                  \A c \in 1..Len(f.candidates) :
                      Silent(f.scanned.entries[f.candidates[c]]) =>
                          f.skipLog[n].path # DirPath(f.candidates[c])

\* a refresh is about to return after telling the observers about a plugin
\* the previous build had reported, and about a skipped entry, with a
\* silently skipped directory on disk
C10_Witness ==
    /\ pc = "ready"
    /\ stack # <<>>
    /\ ~Top.inCallback
    /\ Top.i > Len(Top.result.plugins)
    /\ Top.j > Len(Top.result.skipped)
    /\ Len(Top.foundLog) >= 1
    /\ Len(Top.skipLog) >= 1
    /\ Top.foundLog[1] \in Range(installed)
    /\ \E c \in 1..Len(Top.candidates) : Silent(Top.scanned.entries[Top.candidates[c]])

\* C11: a candidate directory without a package.json, one whose
\* package.json has no junctionrelay field or one that is not an object,
\* and one whose junctionrelay.type is not 'element' each have no entry in
\* plugins and no entry in skipped.
C11_SilentSkips ==
    outcome.done =>
        \A i \in 1..Len(outcome.candidates) :
            LET c == fs.entries[outcome.candidates[i]]
                path == DirPath(outcome.candidates[i])
            IN  (c.pkg = "none" \/ (c.pkg = "object" /\ ~DeclaresElement(c))) =>
                    /\ PluginsAt(path) = {}
                    /\ SkipsAt(path) = {}

\* a scan that returned a plugin after passing a directory without
\* package.json, a package without a usable junctionrelay field and a
\* collector plugin
C11_Witness ==
    /\ outcome.done
    /\ ~outcome.threw
    /\ Len(outcome.candidates) = 4
    /\ fs.entries[D1] \in {NoField, StringField, NullField, ArrayField}
    /\ fs.entries[D2] = Collector
    /\ fs.entries[S1] = NoDescriptor("none")
    /\ Len(outcome.plugins) = 1
    /\ outcome.plugins[1].path = DirPath(U1)

\* the text around a word in the reasons of discovery.ts
ReasonAffixes == {"", "Could not ", " package.json", " in package.json"}

\* reason.includes(word)
Mentions(reason, word) ==
    \E pre, post \in ReasonAffixes : reason = pre \o word \o post

\* C12: in a scan that returns, a candidate whose package.json exists but
\* cannot be read has exactly one skipped entry, with a reason that says
\* the file could not be read, and one whose package.json is not JSON has
\* exactly one skipped entry whose reason mentions 'Invalid JSON'; neither
\* is in plugins, and the entry's path is the candidate directory.
C12_ReadAndParseFailures ==
    (outcome.done /\ ~outcome.threw) =>
        \A i \in 1..Len(outcome.candidates) :
            LET c == fs.entries[outcome.candidates[i]]
                path == DirPath(outcome.candidates[i])
                word == IF c.pkg = "unreadable" THEN "read" ELSE "Invalid JSON"
            IN  c.pkg \in {"unreadable", "invalid"} =>
                    /\ PluginsAt(path) = {}
                    /\ Cardinality(SkipsAt(path)) = 1
                    /\ \A k \in SkipsAt(path) : Mentions(outcome.skipped[k].reason, word)
                    /\ \A k \in 1..Len(outcome.skipped) :
                          outcome.skipped[k].reason
                              \in {"Could not read package.json", "Invalid JSON in package.json"}
                          => \E j \in 1..Len(outcome.candidates) :
                                /\ outcome.skipped[k].path = DirPath(outcome.candidates[j])
                                /\ fs.entries[outcome.candidates[j]].pkg
                                      \in {"unreadable", "invalid"}

\* a scan that returned a plugin and two skipped entries, for an unreadable
\* package.json and for one that is not JSON
C12_Witness ==
    /\ outcome.done
    /\ ~outcome.threw
    /\ fs.entries[D1] = NoDescriptor("unreadable")
    /\ fs.entries[D2] = NoDescriptor("invalid")
    /\ Len(outcome.skipped) = 2
    /\ Len(outcome.plugins) >= 1

\* what each check of the validators asks of the manifest m
CheckOk(check, m) ==
    CASE check = "type" -> m.type = Str("element")
      [] check \in {"entry", "displayName", "description", "icon"} ->
             m[check].t = "string" /\ m[check].s # ""
      [] check = "descriptionCapped" ->
             m.description.t = "string" /\ Len(m.description.s) \in 1..120
      [] check = "elementType" ->
             m.elementType.t = "string" /\ ELEMENT_TYPE_PATTERN(m.elementType.s)
      [] check = "pluginId" ->
             m.elementType.t = "string" /\ PLUGIN_ID_PATTERN(m.elementType.s)
      [] check = "category" ->
             /\ m.category.t = "string"
             /\ m.category.s \in {"Data", "Media", "Visualization", "Effects", "Utility"}
      [] check \in {"sensorBound", "sensorTagCompatible"} -> m[check].t = "boolean"
      [] check = "defaultSize" ->
             /\ m.defaultSize.t \in {"object", "array"}
             /\ m.defaultSize.width.t = "number"
             /\ m.defaultSize.height.t = "number"
      [] check = "defaultProperties" -> m.defaultProperties.t = "object"
      [] check = "layoutModes" ->
             \/ m.layoutModes.t = "undefined"
             \/ /\ m.layoutModes.t = "array"
                /\ \A k \in 1..Len(m.layoutModes.items) :
                      m.layoutModes.items[k] \in {Str("composite"), Str("pixel")}

\* the checks of validateElementManifest, and those m violates
HostChecks ==
    {"entry", "elementType", "displayName", "description", "category", "icon",
     "sensorTagCompatible", "defaultSize", "defaultProperties"}
Violated(checks, m) == {check \in checks : ~CheckOk(check, m)}

\* the checks of validateManifest, in validation.ts and in its namespaced
\* revision
SdkChecks ==
    {"type", "entry", "elementType", "displayName", "description", "category", "icon",
     "sensorBound", "defaultSize", "defaultProperties", "layoutModes"}
NamespacedChecks ==
    {"type", "entry", "pluginId", "displayName", "descriptionCapped", "category", "icon",
     "sensorTagCompatible", "defaultSize", "defaultProperties", "layoutModes"}

\* C13: in a scan that returns, a candidate that declares type 'element'
\* and violates some check of the scan's validation is not in plugins and
\* has exactly one skipped entry, whose reason is the messages of the
\* violated checks, one each, joined by '; ' (empty entry and bad category:
\* both messages); every valid candidate of the scan is still returned
\* under its identifier.
C13_InvalidManifestSkipped ==
    (outcome.done /\ ~outcome.threw) =>
        \A i \in 1..Len(outcome.candidates) :
            LET c == fs.entries[outcome.candidates[i]]
                m == c.junctionrelay.m
                path == DirPath(outcome.candidates[i])
            IN  /\ (DeclaresElement(c) /\ Violated(HostChecks, m) # {}) =>
                      /\ PluginsAt(path) = {}
                      /\ Cardinality(SkipsAt(path)) = 1
                      /\ \A k \in SkipsAt(path) :
                            /\ outcome.skipped[k].reason
                                  = Join(validateElementManifest(m), "; ")
                            /\ c = BadTwoFields =>
                                  outcome.skipped[k].reason
                                      = "missing entry; invalid category 'Nonexistent'"
                      /\ Len(validateElementManifest(m)) = Cardinality(Violated(HostChecks, m))
                /\ (DeclaresElement(c) /\ Violated(HostChecks, m) = {}) =>
                      m.elementType.s \in IdSet(outcome.plugins)

\* a scan that skipped a manifest with an empty entry and a bad category
\* and returned the valid plugin it met after it
C13_Witness ==
    /\ outcome.done
    /\ ~outcome.threw
    /\ fs.entries[D1] = BadTwoFields
    /\ Cardinality(SkipsAt(DirPath(D1))) = 1
    /\ Cardinality(PluginsAt(DirPath(S1))) = 1
    /\ Len(outcome.skipped) >= 2

\* C14: when every directory of a readable root holds a descriptor that
\* passes the scan's validation and the N of them that lie in the three
\* location classes (direct subdirectory, node_modules/@junctionrelay/
\* element-*, node_modules/junctionrelay-element-*) declare pairwise
\* distinct identifiers, the scan returns exactly N plugins and no skipped
\* entry.
C14_Completeness ==
    LET InClass(d) ==
            \/ d.loc = "direct"
            \/ d.loc = "scoped" /\ d.pre = "element-"
            \/ d.loc = "unscoped" /\ d.pre = "junctionrelay-element-"
        held == {d \in Dirs : fs.entries[d].exists /\ InClass(d)}
        idOf(d) == fs.entries[d].junctionrelay.m.elementType
    IN  (/\ outcome.done
         /\ fs.root = "dir"
         /\ fs.nodeModules \in {"dir", "missing"}
         /\ fs.scope \in {"dir", "missing"}
         /\ \A d \in Dirs : fs.entries[d].exists => HostValid(fs.entries[d])
         /\ \A d, e \in held : idOf(d) = idOf(e) => d = e) =>
            /\ ~outcome.threw
            /\ Len(outcome.plugins) = Cardinality(held)
            /\ {outcome.plugins[k].path : k \in 1..Len(outcome.plugins)}
                  = {DirPath(d) : d \in held}
            /\ outcome.skipped = <<>>

\* a scan of three valid plugins with three identifiers, one in each
\* location class, next to a valid package outside the classes
C14_Witness ==
    /\ outcome.done
    /\ Len(outcome.plugins) = 3
    /\ outcome.skipped = <<>>
    /\ Cardinality(IdSet(outcome.plugins)) = 3
    /\ fs.entries[S0].exists
    /\ \A d \in {D1, S1, U1} : Cardinality(PluginsAt(DirPath(d))) = 1

\* C15: candidates are processed direct subdirectories first, then scoped
\* dependency-cache entries, then unscoped ones, so plugins is ordered by
\* location class, and of two valid candidates in different classes that
\* declare the same identifier the one of the earlier class is kept and
\* the one of the later class is reported as duplicate.
C15_LocationPrecedence ==
    LET rank(d) == CASE d.loc = "direct" -> 1 [] d.loc = "scoped" -> 2
                     [] d.loc = "unscoped" -> 3
        dirOf(path) == CHOOSE d \in Dirs : DirPath(d) = path
        cands == outcome.candidates
        valid == {i \in 1..Len(cands) : HostValid(fs.entries[cands[i]])}
        idOf(i) == fs.entries[cands[i]].junctionrelay.m.elementType.s
    IN  outcome.done =>
            /\ \A i, j \in 1..Len(cands) : i < j => rank(cands[i]) <= rank(cands[j])
            /\ \A k, l \in 1..Len(outcome.plugins) :
                  k < l => rank(dirOf(outcome.plugins[k].path))
                              <= rank(dirOf(outcome.plugins[l].path))
            /\ ~outcome.threw =>
                  \A i, j \in valid :
                      (idOf(i) = idOf(j) /\ rank(cands[i]) < rank(cands[j])) =>
                          /\ PluginsAt(DirPath(cands[j])) = {}
                          /\ \E k \in SkipsAt(DirPath(cands[j])) :
                                outcome.skipped[k].reason = DuplicateReason(idOf(j))
                          /\ \E k \in 1..Len(outcome.plugins) :
                                /\ outcome.plugins[k].manifest.elementType.s = idOf(i)
                                /\ rank(dirOf(outcome.plugins[k].path)) <= rank(cands[i])

\* a scan in which a scoped and an unscoped dependency-cache entry declare
\* the same identifier and a direct subdirectory holds another plugin
C15_Witness ==
    /\ outcome.done
    /\ ~outcome.threw
    /\ Len(outcome.plugins) = 2
    /\ outcome.plugins[1].path = DirPath(D1)
    /\ outcome.plugins[2].path = DirPath(S1)
    /\ Len(outcome.skipped) = 1
    /\ outcome.skipped[1].path = DirPath(U1)
    /\ outcome.skipped[1].reason = DuplicateReason("clock")

\* C16: whatever value validateManifest is given (object, array,
\* primitive, null, undefined), in either revision, the result's valid is
\* true exactly when its errors list is empty.
C16_ValidIffNoErrors ==
    /\ validation.sdk.done =>
          (validation.sdk.valid <=> validation.sdk.errors = <<>>)
    /\ validation.namespaced.done =>
          (validation.namespaced.valid <=> validation.namespaced.errors = <<>>)

\* one manifest validated by both revisions: one finds it valid, the other
\* reports two errors
C16_Witness ==
    /\ validation.sdk.done
    /\ validation.sdk.valid
    /\ validation.namespaced.done
    /\ ~validation.namespaced.valid
    /\ Len(validation.namespaced.errors) = 2

\* C17: for an object validateManifest returns one error for each check
\* the object violates, k errors for k violated checks and no error twice;
\* for null, undefined and every value that is not an object it returns the
\* one generic error and nothing else.
C17_ErrorAccumulation ==
    LET Accumulated(r, checks) ==
            r.done =>
                IF input.t \in {"object", "array"}
                THEN /\ Len(r.errors) = Cardinality(Violated(checks, input.m))
                     /\ \A k, l \in 1..Len(r.errors) :
                           r.errors[k] = r.errors[l] => k = l
                ELSE r.errors = <<"manifest must be an object">>
    IN  /\ Accumulated(validation.sdk, SdkChecks)
        /\ Accumulated(validation.namespaced, NamespacedChecks)

\* both revisions have reported ten errors for the manifest that violates
\* ten checks
C17_Witness ==
    /\ input = JrObject(MultipleErrorsManifest)
    /\ validation.sdk.done
    /\ Len(validation.sdk.errors) = 10
    /\ validation.namespaced.done
    /\ Len(validation.namespaced.errors) = 10

\* C18: a manifest whose elementType is a single-segment lowercase
\* kebab-case identifier, whose sensorTagCompatible is a boolean, whose
\* other required fields are well-typed and whose layoutModes is omitted or
\* ['composite'] is reported valid, with no errors, by validateManifest (by
\* one revision of it at least).
C18_KebabManifestValid ==
    LET m == input.m
        WellTyped ==
            /\ input.t = "object"
            /\ \A check \in {"type", "entry", "elementType", "displayName",
                              "descriptionCapped", "category", "icon",
                              "sensorTagCompatible", "defaultSize", "defaultProperties"} :
                  CheckOk(check, m)
            /\ m.layoutModes \in {NoModes, Modes(<<Str("composite")>>)}
    IN  (validation.sdk.done /\ validation.namespaced.done /\ WellTyped) =>
            \/ validation.sdk.valid /\ validation.sdk.errors = <<>>
            \/ validation.namespaced.valid /\ validation.namespaced.errors = <<>>

\* C19: the defaultSize of every manifest that the scan returns in plugins,
\* and of every candidate manifest that validateManifest reports valid, has
\* a width and a height that are numbers greater than zero.
C19_PositiveDefaultSize ==
    LET Positive(ds) ==
            /\ ds.width.t = "number" /\ ds.width.n > 0
            /\ ds.height.t = "number" /\ ds.height.n > 0
    IN  outcome.done =>
            /\ \A k \in 1..Len(outcome.plugins) :
                  Positive(outcome.plugins[k].manifest.defaultSize)
            /\ \A i \in 1..Len(outcome.candidates) :
                  LET c == fs.entries[outcome.candidates[i]]
                  IN  (DeclaresElement(c) /\ validateManifest(c.junctionrelay).valid) =>
                          Positive(c.junctionrelay.m.defaultSize)

\* C20: next to the errors of the other checks, validateManifest adds
\* nothing for an omitted layoutModes, one error for a layoutModes that is
\* not an array, and for an array an error exactly when some element is
\* neither 'composite' nor 'pixel'; that error lists those elements, in
\* order and no others, between its fixed head and tail.
C20_LayoutModesCheck ==
    LET lm == input.m.layoutModes
        rest == JrObject([input.m EXCEPT !.layoutModes = NoModes])
        offending ==
            SelectSeq(lm.items, LAMBDA v : v \notin {Str("composite"), Str("pixel")})
        Name(v) == CASE v.t = "string" -> v.s
                     [] v.t = "number" -> ToString(v.n)
                     [] OTHER -> ""
        named == "layoutModes contains invalid values: "
                     \o Join([k \in 1..Len(offending) |-> Name(offending[k])], ", ")
                     \o "; allowed: composite, pixel"
        Checked(r, others) ==
            (r.done /\ input.t = "object") =>
                LET added == SubSeq(r.errors, Len(others) + 1, Len(r.errors))
                IN  /\ SubSeq(r.errors, 1, Len(others)) = others
                    /\ lm.t = "undefined" => added = <<>>
                    /\ lm.t \notin {"undefined", "array"} => Len(added) = 1
                    /\ lm.t = "array" =>
                          added = IF offending = <<>> THEN <<>> ELSE <<named>>
    IN  /\ Checked(validation.sdk, validateManifest(rest).errors)
        /\ Checked(validation.namespaced, validateManifestNamespaced(rest).errors)

\* a manifest whose only fault is a layoutModes array with three elements
\* that are not allowed around one that is
C20_Witness ==
    /\ validation.sdk.done
    /\ input.m.layoutModes = Modes(<<Str("grid"), Num(1), Str("pixel"), Str("flow")>>)
    /\ validation.sdk.errors
          = <<"layoutModes contains invalid values: grid, 1, flow; allowed: composite, pixel">>

\* C21: parsePackageManifest returns a null manifest and the one
\* missing-field error when the junctionrelay field is absent, null or not
\* an object; otherwise a null manifest and validateManifest's errors when
\* the validation fails, and the junctionrelay value itself with no errors
\* when it passes; the manifest is not null exactly when errors is empty.
C21_ParsePackageManifest ==
    LET Parsed(r, v) ==
            r.done =>
                /\ r.manifest # NullManifest <=> r.errors = <<>>
                /\ input.t \notin {"object", "array"} =>
                      /\ r.manifest = NullManifest
                      /\ r.errors = <<"package.json missing \"junctionrelay\" field">>
                /\ (input.t \in {"object", "array"} /\ ~v.valid) =>
                      /\ r.manifest = NullManifest
                      /\ r.errors = v.errors
                /\ (input.t \in {"object", "array"} /\ v.valid) =>
                      /\ r.manifest = input
                      /\ r.errors = <<>>
    IN  /\ Parsed(validation.parsed, validateManifest(input))
        /\ Parsed(validation.parsedNamespaced, validateManifestNamespaced(input))

\* one package.json parsed by both revisions: one hands out its manifest,
\* the other the errors of its validation
C21_Witness ==
    /\ validation.parsed.done
    /\ validation.parsed.manifest = input
    /\ validation.parsed.errors = <<>>
    /\ validation.parsedNamespaced.done
    /\ validation.parsedNamespaced.manifest = NullManifest
    /\ Len(validation.parsedNamespaced.errors) = 2

\* C22: every plugin of a scan has the name of its package.json when that
\* has one and its directory's base name otherwise, the version of its
\* package.json or '0.0.0', the entry of its manifest and the path of its
\* candidate directory; the registry entry built from it has the same name
\* and version.
C22_NameVersionFallback ==
    LET Described(plugins, disk, candidates) ==
            \A k \in 1..Len(plugins) :
                \E n \in 1..Len(candidates) :
                    LET d == candidates[n]
                        c == disk.entries[d]
                    IN  /\ plugins[k].path = DirPath(d)
                        /\ plugins[k].name = IF c.name.t \in {"undefined", "null"}
                                             THEN Str(EntryName(d)) ELSE c.name
                        /\ plugins[k].version = IF c.version.t \in {"undefined", "null"}
                                                THEN Str("0.0.0") ELSE c.version
                        /\ plugins[k].entry = c.junctionrelay.m.entry
                        /\ plugins[k].manifest = c.junctionrelay.m
        Carried(map, plugins) ==
            \A i \in 1..Len(map) :
                \E k \in 1..Len(plugins) :
                    /\ plugins[k].manifest.elementType.s = map[i].key
                    /\ map[i].value.name = plugins[k].name
                    /\ map[i].value.version = plugins[k].version
    IN  /\ \A k \in 1..Len(stack) :
              /\ Described(stack[k].result.plugins, stack[k].scanned, stack[k].candidates)
              /\ Carried(stack[k].newRegistry, stack[k].result.plugins)
        /\ Carried(registry, installed)

\* a registry holding a plugin named after its directory, with the default
\* version, next to one with the name and version of its package.json
C22_Witness ==
    /\ pc = "ready"
    /\ stack = <<>>
    /\ \E i, j \in 1..Len(registry) :
          /\ registry[i].value.name = Str("ticker-v2")
          /\ registry[i].value.version = Str("0.0.0")
          /\ registry[j].value.name = Str("@test/c")
          /\ registry[j].value.version = Str("2.3.1")

\* an entry as build() creates it: not loaded, no components, no error
Unloaded(e) ==
    /\ e.loaded = FALSE
    /\ e.Renderer = "undefined"
    /\ e.PropertiesPanel = "undefined"
    /\ e.error = "undefined"

\* C23: every entry of a map under construction and every entry a build
\* installs has loaded = false and no Renderer, PropertiesPanel or error,
\* whatever the loader wrote into the entry the live map held for the same
\* identifier; only the loader ever changes these fields of an entry.
C23_WholesaleReplacement ==
    [][/\ \A k \in 1..Len(stack') :
            \A i \in 1..Len(stack'[k].newRegistry) :
                Unloaded(stack'[k].newRegistry[i].value)
       /\ \/ \E i \in 1..Len(registry), w \in LoaderWrites : LoadPlugin(i, w)
          \/ registry' = registry
          \/ \A i \in 1..Len(registry') : Unloaded(registry'[i].value)
       /\ Returns => \A i \in 1..Len(registry') : Unloaded(registry'[i].value)]_vars

\* a refresh has returned and the entry of an identifier that a reader saw
\* loaded before it, and of one it saw failed, is unloaded again
C23_Witness ==
    /\ pc = "ready"
    /\ stack = <<>>
    /\ lastCall = "returned"
    /\ seen.called
    /\ Len(seen.all) = 2
    /\ seen.all[1].loaded
    /\ seen.all[1].Renderer = "component"
    /\ seen.all[2].error = "import failed"
    /\ Len(registry) = 2
    /\ \A i \in 1..2 :
          /\ registry[i].key = seen.all[i].manifest.elementType.s
          /\ ~registry[i].value.loaded
          /\ registry[i].value.Renderer = "undefined"
          /\ registry[i].value.error = "undefined"

\* the element identifiers the host asks the registry about
AskedIds == {"gauge-x", "clock", "missing"}

\* get, has, getAll, getElementTypes and size answer after the step what
\* they answered before it
AccessorsUnchanged ==
    /\ getAll' = getAll
    /\ getElementTypes' = getElementTypes
    /\ size' = size
    /\ \A id \in AskedIds : get(id)' = get(id) /\ has(id)' = has(id)

\* C24: the accessors change their answers only in the step in which a
\* build started by construction or by refresh() installs its map: a write
\* to or a removal from the elements directory leaves get, has, getAll,
\* getElementTypes and size as they were, and so does a read.
C24_ChangesOnlyOnRefresh ==
    [][/\ ~Returns => AccessorsUnchanged /\ registry' = registry
       /\ fs' # fs => AccessorsUnchanged
       /\ seen' # seen => AccessorsUnchanged /\ registry' = registry]_vars

\* the plugin was removed after the last build and a reader is still handed
\* the entry of that build, which a scan would not find now
C24_Witness ==
    /\ pc = "ready"
    /\ stack = <<>>
    /\ dirty
    /\ seen.called
    /\ seen.all = getAll
    /\ size = 1
    /\ has("gauge-x")
    /\ \A candidates \in ScanOrders(fs) :
          LET r == discoverPlugins(fs, candidates)
          IN  ~r.threw /\ r.plugins = <<>>

\* C25: at most one build() call of the registry is active at any time,
\* also when refresh() is called from inside an observer callback of a
\* running build.
C25_SingleActiveBuild == Len(stack) <= 1

\* C26: in every state of the registry size, getAll() and getElementTypes()
\* have the same length, has(id) holds exactly when get(id) is defined,
\* get(id) is an entry whose manifest declares id, getElementTypes()[i] is
\* the identifier of getAll()[i], and both lists are in the order of the
\* plugins list of the scan of the build that installed the map.
C26_AccessorAgreement ==
    pc = "ready" =>
        /\ size = Len(getAll)
        /\ size = Len(getElementTypes)
        /\ \A id \in AskedIds \cup KeySet(registry) \cup IdSet(installed) :
              /\ has(id) <=> get(id) # NoDefinition
              /\ has(id) => get(id).manifest.elementType = Str(id)
        /\ \A i \in 1..size :
              /\ getElementTypes[i] = getAll[i].manifest.elementType.s
              /\ get(getElementTypes[i]) = getAll[i]
        /\ getElementTypes =
              [i \in 1..Len(installed) |-> installed[i].manifest.elementType.s]

\* a registry of two plugins, of which the scan listed the scoped one last
C26_Witness ==
    /\ pc = "ready"
    /\ size = 2
    /\ getElementTypes = <<"gauge-x", "clock">>
    /\ installed[2].path = DirPath(S1)
    /\ ~has("missing")
    /\ get("missing") = NoDefinition
    /\ seen.called
    /\ seen.all = getAll

\* the plugins of a build for which newRegistry.set has been called
Stored(f) ==
    IF f.inCallback /\ f.i <= Len(f.result.plugins) THEN f.i ELSE f.i - 1

\* no two plugins of the list declare the same element identifier
UniqueIds(plugins) ==
    \A a, b \in 1..Len(plugins) :
        plugins[a].manifest.elementType = plugins[b].manifest.elementType => a = b

\* C27: the plugins list of the scan of every build holds no identifier
\* twice; every set of a build adds a key to the map under construction and
\* none replaces an entry, so the map a build installs has as many entries as
\* its scan has plugins.
C27_Uniqueness ==
    /\ \A k \in 1..Len(stack) :
          LET f == stack[k]
          IN  /\ UniqueIds(f.result.plugins)
              /\ Len(f.newRegistry) = Stored(f)
              /\ \A i \in 1..Len(f.newRegistry) :
                    f.newRegistry[i].key = f.result.plugins[i].manifest.elementType.s
    /\ UniqueIds(installed)
    /\ Len(registry) = Len(installed)

\* a build over two packages that declare the same identifier has stored
\* its plugins: one entry, the other package reported as a duplicate
C27_Witness ==
    /\ stack # <<>>
    /\ Top.i > Len(Top.result.plugins)
    /\ Len(Top.newRegistry) = 1
    /\ \E j \in 1..Len(Top.result.skipped) :
          Top.result.skipped[j].reason = DuplicateReason("gauge-x")
    /\ Top.newRegistry[1].key = "gauge-x"

\* C28: a scan hands no directory to tryLoadPlugin twice: the dependency
\* cache is left out of the direct subdirectories, of the scope directory
\* only names starting with 'element-' are taken and of the dependency cache
\* only names starting with 'junctionrelay-element-'; so no path occurs twice
\* in plugins and skipped together.
C28_ProcessedOnce ==
    LET cands == outcome.candidates
    IN  outcome.done =>
            /\ \A i, j \in 1..Len(cands) :
                  DirPath(cands[i]) = DirPath(cands[j]) => i = j
            /\ \A i \in 1..Len(cands) :
                  /\ cands[i] \notin {NodeModulesEntry, ScopeEntry}
                  /\ cands[i].loc = "scoped" => cands[i].pre = "element-"
                  /\ cands[i].loc = "unscoped" => cands[i].pre = "junctionrelay-element-"
            /\ \A k \in 1..Len(outcome.plugins) :
                  /\ PluginsAt(outcome.plugins[k].path) = {k}
                  /\ SkipsAt(outcome.plugins[k].path) = {}
            /\ \A k \in 1..Len(outcome.skipped) :
                  /\ SkipsAt(outcome.skipped[k].path) = {k}
                  /\ PluginsAt(outcome.skipped[k].path) = {}

\* a scan over all three location classes, with entries the filters leave
\* out, that reported plugins and skipped packages
C28_Witness ==
    /\ outcome.done
    /\ ~outcome.threw
    /\ fs.entries[S0].exists
    /\ fs.entries[U0].exists
    /\ \A d \in {D1, S1, U1} :
          \E i \in 1..Len(outcome.candidates) : outcome.candidates[i] = d
    /\ Len(outcome.plugins) >= 2
    /\ Len(outcome.skipped) >= 1

\* a refresh() leaves build() by an exception of an observer callback
RefreshThrows == pc = "ready" /\ stack # <<>> /\ stack' = Pop /\ lastCall' = "threw"

C30_LatestScanWins ==
    [][Returns =>
          registry' = IF Top.nested.returned THEN Top.nested.map
                      ELSE Top.newRegistry]_vars

====
